---------------------------- MODULE Spec2Model ----------------------------
(***************************************************************************)
(* temperature_exporter (src/src/main.rs): an EnOcean serial worker that   *)
(* inserts temperature readings into a mutex-protected TemperatureStore,   *)
(* and a warp handler that renders the store as a Prometheus document.     *)
(*                                                                         *)
(* Representation choices:                                                 *)
(*   Option<T>      None is <<>>, Some(x) is <<x>>                         *)
(*   Result<T,E>    [ok |-> TRUE, v |-> x]  or  [ok |-> FALSE, err |-> e]  *)
(*   f64 Celsius    the integer number of half degrees (decode_temperature *)
(*                  only produces multiples of 0.5)                        *)
(*   SystemTime     integer nanoseconds relative to UNIX_EPOCH (a          *)
(*                  SystemTime may lie before the epoch)                   *)
(*   String         a sequence of tokens (strings and numbers)             *)
(***************************************************************************)
EXTENDS Integers, Sequences, FiniteSets, TLC

(***************************************************************************)
(* Bounds of the model.                                                    *)
(***************************************************************************)
\* the worker inserts at most this many readings
MaxInserts == 2
\* the devices table of the configuration has at most this many entries
MaxDevices == 2

(***************************************************************************)
(* Values the environment supplies.                                        *)
(***************************************************************************)
\* sender ids (enocean::packet::Address, 4 bytes, as u32)
Addresses == {10, 11}
\* the sensor byte of a BS4 telegram
Bytes == {0, 94}
\* wall clock readings, nanoseconds relative to the epoch
Times == {-1, 1500000, 2000000}
\* request handler tasks of the HTTP server
Handlers == {"h1", "h2"}
DeviceNames == {"Living Room"}

None == <<>>
Some(x) == <<x>>
Ok(x) == [ok |-> TRUE, v |-> x]
Err(e) == [ok |-> FALSE, err |-> e]

NanosPerMilli == 1000000

(***************************************************************************)
(* YAML values (yaml_rust::Yaml) as far as main reads them.                *)
(***************************************************************************)
\* a value is [tag, str, hash]: str is the text of a scalar, hash the entries
\* (key, value) of a table in file order
YString(s) == [tag |-> "String", str |-> s, hash |-> <<>>]
YInteger(s) == [tag |-> "Integer", str |-> s, hash |-> <<>>]
YHash(h) == [tag |-> "Hash", str |-> "", hash |-> h]
YBadValue == [tag |-> "BadValue", str |-> "", hash |-> <<>>]

\* Yaml::as_str
as_str(y) == IF y.tag = "String" THEN Some(y.str) ELSE None
\* Yaml::as_hash
as_hash(y) == IF y.tag = "Hash" THEN Some(y.hash) ELSE None

(***************************************************************************)
(* Address text (enocean::packet::Address): Display gives the text of an   *)
(* id, FromStr reads it back and rejects what is not the text of an id.    *)
(***************************************************************************)
AddressToString(a) == IF a = 10 THEN "0000000a" ELSE "0000000b"

ParseAddress(s) ==
    CASE s = "0000000a" -> Ok(10)
      [] s = "0000000b" -> Ok(11)
      [] OTHER -> Err("invalid address")

\* the strings a device key of the configuration can be
AddressTexts == {"0000000a", "0000000b", "kitchen"}

(***************************************************************************)
(* TemperatureStore.devices: HashMap<Address, (Option<DeviceName>,         *)
(* Option<(Temperature, Timestamp)>)>, a function whose domain is the set  *)
(* of keys; a value is [name |-> Option, point |-> Option].                *)
(***************************************************************************)
EmptyMap == [a \in {} |-> [name |-> None, point |-> None]]

\* HashMap::insert: the value of an existing key is replaced
MapInsert(devices, address, value) ==
    [a \in DOMAIN devices \cup {address} |->
        IF a = address THEN value ELSE devices[a]]

\* the mutant of ConfigRecord: the configured name is dropped
ConfigRecordNoName(name) == [name |-> None, point |-> None]

\* with_devices, line 31: the value stored for a configured device
ConfigRecord(name) == [name |-> Some(name), point |-> None]

\* with_devices, lines 29-30: the error of one (address, name) entry, if any;
\* the name is looked at before the address
EntryError(entry) ==
    IF as_str(entry[2]) = None THEN Some("device name was not string")
    ELSE IF as_str(entry[1]) = None THEN Some("device address was not a string")
    ELSE IF ~ParseAddress(as_str(entry[1])[1]).ok
         THEN Some(ParseAddress(as_str(entry[1])[1]).err)
    ELSE None

\* with_devices, lines 28-32: the loop from entry i on, devices being the
\* map built so far; the first error returns (the ? operator) and the map
\* built so far is dropped
RECURSIVE WithDevicesFrom(_, _, _)
WithDevicesFrom(config_devices, i, devices) ==
    IF i > Len(config_devices) THEN Ok(devices)
    ELSE IF EntryError(config_devices[i]) # None
         THEN Err(EntryError(config_devices[i])[1])
    ELSE WithDevicesFrom(config_devices, i + 1,
             MapInsert(devices,
                       ParseAddress(as_str(config_devices[i][1])[1]).v,
                       ConfigRecord(as_str(config_devices[i][2])[1])))

\* the number of entries before the first malformed one
RECURSIVE ValidPrefix(_, _)
ValidPrefix(config_devices, i) ==
    IF i > Len(config_devices) \/ EntryError(config_devices[i]) # None
    THEN i - 1
    ELSE ValidPrefix(config_devices, i + 1)

\* the mutant of with_devices: at a malformed entry the loop stops and the
\* store of the entries seen so far is returned
with_devices_partial(config_devices) ==
    WithDevicesFrom(SubSeq(config_devices, 1, ValidPrefix(config_devices, 1)),
                    1, EmptyMap)

\* TemperatureStore::with_devices
with_devices(config_devices) == WithDevicesFrom(config_devices, 1, EmptyMap)

\* the mutant of OrInsert: an unknown address gets no record
OrInsertNothing(devices, address) == devices

\* insert, lines 37-38: entry(address).or_insert((None, None))
OrInsert(devices, address) ==
    IF address \in DOMAIN devices THEN devices
    ELSE MapInsert(devices, address, [name |-> None, point |-> None])

\* the mutant of Replace: a reading older than the stored one is dropped
ReplaceIfNewer(devices, address, temperature, timestamp) ==
    IF address \notin DOMAIN devices THEN devices
    ELSE IF devices[address].point # None
            /\ devices[address].point[1][2] > timestamp
         THEN devices
         ELSE [devices EXCEPT ![address].point = Some(<<temperature, timestamp>>)]

\* a mutant of Replace: the whole record is overwritten, as by
\* devices.insert(address, (None, Some(..)))
ReplaceDroppingName(devices, address, temperature, timestamp) ==
    IF address \notin DOMAIN devices THEN devices
    ELSE [devices EXCEPT ![address] =
             [name |-> None, point |-> Some(<<temperature, timestamp>>)]]

\* a mutant of Replace: a reading is set only where there is none
ReplaceIfAbsent(devices, address, temperature, timestamp) ==
    IF address \notin DOMAIN devices THEN devices
    ELSE IF devices[address].point # None THEN devices
         ELSE [devices EXCEPT ![address].point = Some(<<temperature, timestamp>>)]

\* insert, line 39: .1.replace((temperature, timestamp)) on the entry
Replace(devices, address, temperature, timestamp) ==
    IF address \notin DOMAIN devices THEN devices
    ELSE [devices EXCEPT ![address].point = Some(<<temperature, timestamp>>)]

\* TemperatureStore::insert as one call
insert(devices, address, temperature, timestamp) ==
    Replace(OrInsert(devices, address), address, temperature, timestamp)

(***************************************************************************)
(* scrape.  The String it builds is kept as the sequence of its lines.     *)
(***************************************************************************)
HelpLine ==
    "# HELP enocean_temperature_celsius Temperature reported by an EnOcean sensor, in Â°C\n"
TypeLine == "# TYPE enocean_temperature_celsius gauge\n"

\* scrape, lines 43-44
ScrapeHeader == <<HelpLine, TypeLine>>

\* Display of an f64 that is a multiple of 0.5 and not negative
\* (temperature is in half degrees): 20.0 prints as 20, 21.5 as 21.5
FormatTemperature(temperature) ==
    IF temperature % 2 = 0 THEN ToString(temperature \div 2)
    ELSE ToString(temperature \div 2) \o ".5"

\* scrape, line 48: duration_since(UNIX_EPOCH) fails before the epoch
duration_since_epoch(time) == IF time >= 0 THEN Ok(time) ELSE Err("SystemTimeError")

\* Duration::as_millis: whole milliseconds
as_millis(nanos) == nanos \div NanosPerMilli

\* the mutant of FormatLine: the name label is left out
FormatLineNoName(address, name, temp, time) ==
    "enocean_temperature_celsius{address=\"" \o AddressToString(address)
        \o "\"} " \o FormatTemperature(temp) \o " " \o ToString(time) \o "\n"

\* scrape, lines 49-55: the line of one device; time is in milliseconds
FormatLine(address, name, temp, time) ==
    IF name # None
    THEN "enocean_temperature_celsius{address=\"" \o AddressToString(address)
            \o "\", name=\"" \o name[1] \o "\"} "
            \o FormatTemperature(temp) \o " " \o ToString(time) \o "\n"
    ELSE "enocean_temperature_celsius{address=\"" \o AddressToString(address)
            \o "\"} " \o FormatTemperature(temp) \o " " \o ToString(time) \o "\n"

\* scrape, line 47: only a device with a reading gets a line
HasLine(record) == record.point # None

(***************************************************************************)
(* decode_temperature, line 121, in half degrees:                          *)
(* 2 * (40 - round(byte * 80 / 255) / 2) = 80 - round(byte * 80 / 255).    *)
(* f64::round rounds half away from zero; byte * 80 / 255 is never a tie   *)
(* (160 * byte = 255 * (2k + 1) has no solution), so round(n / 255) is     *)
(* (2n + 255) \div 510.                                                    *)
(***************************************************************************)
\* the mutant of decode_temperature: the quotient is truncated
decode_temperature_truncated(byte) == 80 - ((byte * 80) \div 255)

decode_temperature(byte) == 80 - ((2 * (byte * 80) + 255) \div (2 * 255))

\* the values of a u8, the type of the argument (line 120)
U8 == 0..255

(***************************************************************************)
(* Frames and packets (enocean crate), at the boundary the worker uses.    *)
(***************************************************************************)
Bs4Frame(a, b) ==
    [packet_type |-> "RadioErp1", rorg |-> "Bs4", data |-> <<17, 34, b, 8>>,
     sender |-> a, crc_ok |-> TRUE]
VldFrame(a) ==
    [packet_type |-> "RadioErp1", rorg |-> "Vld", data |-> <<17, 34, 94, 8>>,
     sender |-> a, crc_ok |-> TRUE]
ResponseFrame ==
    [packet_type |-> "Response", rorg |-> "none", data |-> <<0>>,
     sender |-> 10, crc_ok |-> TRUE]
GarbledFrame ==
    [packet_type |-> "RadioErp1", rorg |-> "Bs4", data |-> <<17, 34, 128, 8>>,
     sender |-> 10, crc_ok |-> FALSE]

Frames ==
    {Bs4Frame(a, b) : a \in Addresses, b \in Bytes}
    \cup {VldFrame(a) : a \in Addresses}
    \cup {ResponseFrame, GarbledFrame}

\* Packet::decode
PacketDecode(frame) ==
    IF ~frame.crc_ok THEN Err("crc")
    ELSE IF frame.packet_type = "RadioErp1"
         THEN Ok([variant |-> "RadioErp1", choice |-> frame.rorg,
                  user_data |-> frame.data, sender_id |-> frame.sender])
         ELSE Ok([variant |-> frame.packet_type, choice |-> "none",
                  user_data |-> frame.data, sender_id |-> frame.sender])

\* the mutant of IsSensorTelegram: every radio telegram is taken
IsRadioTelegram(pkt) == pkt.variant = "RadioErp1"

\* serial_driver_thread, lines 109-110
IsSensorTelegram(pkt) == pkt.variant = "RadioErp1" /\ pkt.choice = "Bs4"

\* the mutant of SensorByte: the neighbouring byte of the payload
SensorByteAtThree(pkt) == pkt.user_data[IF Len(pkt.user_data) >= 4 THEN 4 ELSE 1]

\* serial_driver_thread, line 111: erp.user_data[2], counted from 0
SensorByte(pkt) == pkt.user_data[3]


\* the mutant of ScrapeRecord: a device without a reading gets a line of zeros
ScrapeRecordAlways(address, record) ==
    IF record.point = None
    THEN Ok(<<FormatLine(address, record.name, 0, 0)>>)
    ELSE IF ~duration_since_epoch(record.point[1][2]).ok
         THEN Err("Time went backwards")
         ELSE Ok(<<FormatLine(address, record.name, record.point[1][1],
                              as_millis(duration_since_epoch(record.point[1][2]).v))>>)

\* scrape, lines 47-56: what one device adds to the document; the expect of
\* line 48 panics for a reading taken before the epoch
ScrapeRecord(address, record) ==
    IF ~HasLine(record) THEN Ok(<<>>)
    ELSE IF ~duration_since_epoch(record.point[1][2]).ok
         THEN Err("Time went backwards")
         ELSE Ok(<<FormatLine(address, record.name, record.point[1][1],
                              as_millis(duration_since_epoch(record.point[1][2]).v))>>)

(***************************************************************************)
(* The configuration file, as main reads it.                               *)
(***************************************************************************)
DeviceKeys == {YString(t) : t \in AddressTexts} \cup {YInteger("12")}
DeviceValues == {YString(n) : n \in DeviceNames} \cup {YInteger("7")}

\* a yaml Hash keeps its entries in file order and has no key twice
DeviceTables ==
    {t \in UNION {[1..n -> DeviceKeys \X DeviceValues] : n \in 0..MaxDevices} :
        \A i, j \in DOMAIN t : i # j => t[i][1] # t[j][1]}

Configs ==
    [port : {YString("/dev/ttyUSB0"), YBadValue},
     listen : {YString("127.0.0.1:9100"), YString("localhost"), YBadValue},
     devices : {YBadValue} \cup {YHash(t) : t \in DeviceTables}]

NoConfig == [port |-> YBadValue, listen |-> YBadValue, devices |-> YBadValue]

\* str::parse::<SocketAddr>
ParseSocketAddr(s) == IF s = "127.0.0.1:9100" THEN Ok(s) ELSE Err("invalid socket address")

(***************************************************************************)
(* State.                                                                  *)
(***************************************************************************)
VARIABLES
    mainpc,     \* where main is
    config,     \* the parsed configuration document
    store,      \* Option of the devices map behind Arc<Mutex<TemperatureStore>>
    lock,       \* the holder of the mutex: "free", "worker" or a handler
    poisoned,   \* the mutex's poison flag
    port_open,  \* Port::open has succeeded
    listening,  \* warp::serve(..).run(listen) has bound the listener
    w,          \* serial_driver_thread: its position and locals
    hpc,        \* each request handler's position
    hrem,       \* each scrape's devices still to iterate
    hdoc,       \* each scrape's String so far, as lines
    hseen,      \* history: the value of last when the scrape took the lock
    last,       \* history: address |-> the (temperature, timestamp) of the last
                \* insert call made for it, in the order the calls took the lock
    ninserts,   \* history: the number of insert calls that took the lock
    returned    \* history: Option of the set of lines (after the header) of
                \* the document last returned since the last insert call

vars == <<mainpc, config, store, lock, poisoned, port_open, listening,
          w, hpc, hrem, hdoc, hseen, last, ninserts, returned>>

NoResult == Err("none")

\* no insert call yet
NoReadings == [a \in {} |-> <<0, 0>>]

\* the worker at pc with the locals of an iteration not set.  The locals
\* live to the end of the loop body (pc "loop"), where done tells how the
\* iteration ended: "read_error", "decode_error", "ignored" or "inserted";
\* old is what Option::replace returned (line 39); printed is what the
\* iteration has written to stderr so far, by the kind of the message;
\* base is history: the value of ninserts when the frame of the iteration
\* was read
WorkerLocals(pc, done) ==
    [pc |-> pc, rx |-> NoResult, pkt |-> NoResult,
     address |-> 0, temperature |-> 0, timestamp |-> 0, old |-> None,
     printed |-> <<>>, base |-> 0, done |-> done]

Init ==
    /\ mainpc = "load_config"
    /\ config = NoConfig
    /\ store = None
    /\ lock = "free"
    /\ poisoned = FALSE
    /\ port_open = FALSE
    /\ listening = FALSE
    /\ w = WorkerLocals("not_started", "none")
    /\ hpc = [h \in Handlers |-> "idle"]
    /\ hrem = [h \in Handlers |-> {}]
    /\ hdoc = [h \in Handlers |-> <<>>]
    /\ hseen = [h \in Handlers |-> NoReadings]
    /\ last = NoReadings
    /\ ninserts = 0
    /\ returned = None

(***************************************************************************)
(* main, lines 65-89.                                                      *)
(***************************************************************************)
\* lines 66-68: the file cannot be opened or read, or is not YAML: main
\* returns the error
LoadConfigError ==
    /\ mainpc = "load_config"
    /\ mainpc' = "exited"
    /\ UNCHANGED <<config, store, lock, poisoned, port_open, listening,
                   w, hpc, hrem, hdoc, hseen, last, ninserts, returned>>

\* line 68: the file holds no document: next().unwrap() panics
LoadConfigEmpty ==
    /\ mainpc = "load_config"
    /\ mainpc' = "panicked"
    /\ UNCHANGED <<config, store, lock, poisoned, port_open, listening,
                   w, hpc, hrem, hdoc, hseen, last, ninserts, returned>>

\* lines 66-68: the first document of the file
LoadConfig ==
    /\ mainpc = "load_config"
    /\ \E c \in Configs : config' = c
    /\ mainpc' = "read_fields"
    /\ UNCHANGED <<store, lock, poisoned, port_open, listening,
                   w, hpc, hrem, hdoc, hseen, last, ninserts, returned>>

\* lines 70-72: port, listen and devices have the types main asks for
FieldsOk(c) ==
    /\ as_str(c.port) # None
    /\ as_str(c.listen) # None
    /\ ParseSocketAddr(as_str(c.listen)[1]).ok
    /\ as_hash(c.devices) # None

\* lines 70-72
ReadFields ==
    /\ mainpc = "read_fields"
    /\ mainpc' = IF FieldsOk(config) THEN "with_devices" ELSE "exited"
    /\ UNCHANGED <<config, store, lock, poisoned, port_open, listening,
                   w, hpc, hrem, hdoc, hseen, last, ninserts, returned>>

\* lines 74-75: with_devices(devices)?, then Arc::new(Mutex::new(store))
BuildStore ==
    /\ mainpc = "with_devices"
    /\ IF with_devices(as_hash(config.devices)[1]).ok
       THEN /\ store' = Some(with_devices(as_hash(config.devices)[1]).v)
            /\ mainpc' = "port_open"
       ELSE /\ store' = None
            /\ mainpc' = "exited"
    /\ UNCHANGED <<config, lock, poisoned, port_open, listening,
                   w, hpc, hrem, hdoc, hseen, last, ninserts, returned>>

\* line 77: Port::open(port_name)?
OpenPort ==
    /\ mainpc = "port_open"
    /\ port_open' = TRUE
    /\ mainpc' = "spawn"
    /\ UNCHANGED <<config, store, lock, poisoned, listening,
                   w, hpc, hrem, hdoc, hseen, last, ninserts, returned>>

\* the mutant of OpenPortFailed: main goes on without the port
OpenPortFailedIgnored == "spawn"

\* line 77: the ? of Port::open(port_name)? returns the error from main
OpenPortFailed == "exited"

\* line 77: the port cannot be opened
OpenPortError ==
    /\ mainpc = "port_open"
    /\ mainpc' = OpenPortFailed
    /\ UNCHANGED <<config, store, lock, poisoned, port_open, listening,
                   w, hpc, hrem, hdoc, hseen, last, ninserts, returned>>

\* lines 80-81: spawn_blocking(serial_driver_thread)
SpawnWorker ==
    /\ mainpc = "spawn"
    /\ w' = WorkerLocals("read", "none")
    /\ mainpc' = "serve"
    /\ UNCHANGED <<config, store, lock, poisoned, port_open, listening,
                   hpc, hrem, hdoc, hseen, last, ninserts, returned>>

\* lines 83-89: warp::serve(filter).run(listen) binds and serves
Serve ==
    /\ mainpc = "serve"
    /\ listening' = TRUE
    /\ mainpc' = "serving"
    /\ UNCHANGED <<config, store, lock, poisoned, port_open,
                   w, hpc, hrem, hdoc, hseen, last, ninserts, returned>>

\* line 89: run panics when it cannot bind; the runtime, dropped by the
\* unwinding, waits for the blocking worker, which goes on
ServeBindPanic ==
    /\ mainpc = "serve"
    /\ mainpc' = "panicked"
    /\ UNCHANGED <<config, store, lock, poisoned, port_open, listening,
                   w, hpc, hrem, hdoc, hseen, last, ninserts, returned>>

(***************************************************************************)
(* The mutex: store.lock().unwrap(), lines 86 and 114.                     *)
(***************************************************************************)
\* the mutant of MutexAvailable: lock() never waits
MutexAlwaysAvailable(holder) == TRUE

\* Mutex::lock returns when no one holds the mutex
MutexAvailable(holder) == holder = "free"

\* the mutant of LockUnwrapOk: the guard is taken out of a PoisonError
LockUnwrapRecovers(poison) == TRUE

\* lock().unwrap() gives the guard when the mutex is not poisoned, and
\* panics on the PoisonError when it is
LockUnwrapOk(poison) == ~poison

(***************************************************************************)
(* serial_driver_thread, lines 101-118.                                    *)
(***************************************************************************)
ReadResults == {Err("io")} \cup {Ok(f) : f \in Frames}

IsSensorFrame(r) == r.ok /\ PacketDecode(r.v).ok /\ IsSensorTelegram(PacketDecode(r.v).v)

\* the mutant of AfterFailure: the worker gives up
AfterFailureStop == "stopped"

\* lines 103 and 107: continue, to the end of the loop body
AfterFailure == "loop"

\* lines 102 and 117: the loop goes to its next iteration
WorkerLoop ==
    /\ w.pc = "loop"
    /\ w' = WorkerLocals("read", "none")
    /\ UNCHANGED <<mainpc, config, store, lock, poisoned, port_open, listening,
                   hpc, hrem, hdoc, hseen, last, ninserts, returned>>

\* line 103: port.read_frame() returns
WorkerReadFrame ==
    /\ w.pc = "read"
    /\ \E r \in ReadResults :
          /\ IsSensorFrame(r) => ninserts < MaxInserts
          /\ w' = [w EXCEPT !.pc = "frame", !.rx = r, !.base = ninserts]
    /\ UNCHANGED <<mainpc, config, store, lock, poisoned, port_open, listening,
                   hpc, hrem, hdoc, hseen, last, ninserts, returned>>

\* line 103: the read failed: the iteration ends, with nothing printed
WorkerReadError ==
    /\ w.pc = "frame"
    /\ ~w.rx.ok
    /\ w' = [w EXCEPT !.pc = AfterFailure, !.done = "read_error"]
    /\ UNCHANGED <<mainpc, config, store, lock, poisoned, port_open, listening,
                   hpc, hrem, hdoc, hseen, last, ninserts, returned>>

\* lines 104-106: the frame is printed and decoded
WorkerDecode ==
    /\ w.pc = "frame"
    /\ w.rx.ok
    /\ w' = [w EXCEPT !.pc = "packet", !.pkt = PacketDecode(w.rx.v),
                      !.printed = Append(w.printed, "Frame")]
    /\ UNCHANGED <<mainpc, config, store, lock, poisoned, port_open, listening,
                   hpc, hrem, hdoc, hseen, last, ninserts, returned>>

\* lines 106-107: the decoding failed: it is printed and the iteration ends
WorkerDecodeError ==
    /\ w.pc = "packet"
    /\ ~w.pkt.ok
    /\ w' = [w EXCEPT !.pc = AfterFailure, !.done = "decode_error",
                      !.printed = Append(w.printed, "Cannot decode")]
    /\ UNCHANGED <<mainpc, config, store, lock, poisoned, port_open, listening,
                   hpc, hrem, hdoc, hseen, last, ninserts, returned>>

\* lines 109-110: another packet or another telegram: the iteration ends
WorkerIgnore ==
    /\ w.pc = "packet"
    /\ w.pkt.ok
    /\ ~IsSensorTelegram(w.pkt.v)
    /\ w' = [w EXCEPT !.pc = "loop", !.done = "ignored"]
    /\ UNCHANGED <<mainpc, config, store, lock, poisoned, port_open, listening,
                   hpc, hrem, hdoc, hseen, last, ninserts, returned>>

\* lines 111-113: temperature, address and SystemTime::now()
WorkerPrepare ==
    /\ w.pc = "packet"
    /\ w.pkt.ok
    /\ IsSensorTelegram(w.pkt.v)
    /\ \E now \in Times :
          w' = [w EXCEPT !.pc = "lock",
                         !.temperature = decode_temperature(SensorByte(w.pkt.v)),
                         !.address = w.pkt.v.sender_id,
                         !.timestamp = now]
    /\ UNCHANGED <<mainpc, config, store, lock, poisoned, port_open, listening,
                   hpc, hrem, hdoc, hseen, last, ninserts, returned>>

\* line 114: store.lock() returns the guard
WorkerLock ==
    /\ w.pc = "lock"
    /\ MutexAvailable(lock)
    /\ LockUnwrapOk(poisoned)
    /\ lock' = "worker"
    /\ last' = [a \in DOMAIN last \cup {w.address} |->
                    IF a = w.address THEN <<w.temperature, w.timestamp>> ELSE last[a]]
    /\ ninserts' = ninserts + 1
    /\ returned' = None
    /\ w' = [w EXCEPT !.pc = "entry"]
    /\ UNCHANGED <<mainpc, config, store, poisoned, port_open, listening,
                   hpc, hrem, hdoc, hseen>>

\* line 114: the mutex is poisoned: unwrap() panics and the thread ends
WorkerLockPoisoned ==
    /\ w.pc = "lock"
    /\ MutexAvailable(lock)
    /\ ~LockUnwrapOk(poisoned)
    /\ w' = WorkerLocals("panicked", w.done)
    /\ UNCHANGED <<mainpc, config, store, lock, poisoned, port_open, listening,
                   hpc, hrem, hdoc, hseen, last, ninserts, returned>>

\* insert, lines 37-38: the entry of the address, made if there is none
WorkerEntry ==
    /\ w.pc = "entry"
    /\ store' = Some(OrInsert(store[1], w.address))
    /\ w' = [w EXCEPT !.pc = "replace"]
    /\ UNCHANGED <<mainpc, config, lock, poisoned, port_open, listening,
                   hpc, hrem, hdoc, hseen, last, ninserts, returned>>

\* insert, line 39, and the end of the statement of line 114, where the
\* guard is dropped; the iteration ends
WorkerReplace ==
    /\ w.pc = "replace"
    /\ store' = Some(Replace(store[1], w.address, w.temperature, w.timestamp))
    /\ lock' = "free"
    /\ w' = [w EXCEPT !.pc = "loop", !.done = "inserted",
                      !.old = IF w.address \in DOMAIN store[1]
                              THEN store[1][w.address].point ELSE None]
    /\ UNCHANGED <<mainpc, config, poisoned, port_open, listening,
                   hpc, hrem, hdoc, hseen, last, ninserts, returned>>

(***************************************************************************)
(* The /metrics handler, line 86: store.lock().unwrap().scrape().  The     *)
(* runtime is current_thread (line 64): the closure of one request runs to *)
(* its end before the thread turns to another task.                        *)
(***************************************************************************)
InClosure(h) == hpc[h] \in {"lock", "scrape"}

\* the mutant of IterDevices: only the devices that have a name
IterNamedDevices(devices) == {a \in DOMAIN devices : devices[a].name # None}

\* scrape, line 46: self.devices.iter() goes over every record of the map
IterDevices(devices) == DOMAIN devices

ExecutorFree == \A h \in Handlers : ~InClosure(h)

\* a GET /metrics request reaches the closure
HandlerPoll(h) ==
    /\ listening
    /\ hpc[h] = "idle"
    /\ ExecutorFree
    /\ hpc' = [hpc EXCEPT ![h] = "lock"]
    /\ UNCHANGED <<mainpc, config, store, lock, poisoned, port_open, listening,
                   w, hrem, hdoc, hseen, last, ninserts, returned>>

\* line 86: lock() returns the guard; scrape starts (lines 43-46)
HandlerLock(h) ==
    /\ hpc[h] = "lock"
    /\ MutexAvailable(lock)
    /\ LockUnwrapOk(poisoned)
    /\ lock' = h
    /\ hpc' = [hpc EXCEPT ![h] = "scrape"]
    /\ hrem' = [hrem EXCEPT ![h] = IterDevices(store[1])]
    /\ hdoc' = [hdoc EXCEPT ![h] = ScrapeHeader]
    /\ hseen' = [hseen EXCEPT ![h] = last]
    /\ UNCHANGED <<mainpc, config, store, poisoned, port_open, listening, w, last, ninserts, returned>>

\* line 86: the mutex is poisoned: unwrap() panics; the task of the request
\* ends without a response
HandlerLockPoisoned(h) ==
    /\ hpc[h] = "lock"
    /\ MutexAvailable(lock)
    /\ ~LockUnwrapOk(poisoned)
    /\ hpc' = [hpc EXCEPT ![h] = "idle"]
    /\ UNCHANGED <<mainpc, config, store, lock, poisoned, port_open, listening,
                   w, hrem, hdoc, hseen, last, ninserts, returned>>

\* scrape, lines 46-57: the next device of the iteration, in any order
HandlerScrapeNext(h) ==
    /\ hpc[h] = "scrape"
    /\ \E a \in hrem[h] :
          /\ ScrapeRecord(a, store[1][a]).ok
          /\ hdoc' = [hdoc EXCEPT ![h] = hdoc[h] \o ScrapeRecord(a, store[1][a]).v]
          /\ hrem' = [hrem EXCEPT ![h] = hrem[h] \ {a}]
    /\ UNCHANGED <<mainpc, config, store, lock, poisoned, port_open, listening,
                   w, hpc, hseen, last, ninserts, returned>>

\* scrape, line 48: expect panics; the guard is dropped by the unwinding,
\* which poisons the mutex; the task of the request ends without a response
HandlerScrapePanic(h) ==
    /\ hpc[h] = "scrape"
    /\ \E a \in hrem[h] : ~ScrapeRecord(a, store[1][a]).ok
    /\ poisoned' = TRUE
    /\ lock' = "free"
    /\ hpc' = [hpc EXCEPT ![h] = "idle"]
    /\ hrem' = [hrem EXCEPT ![h] = {}]
    /\ hdoc' = [hdoc EXCEPT ![h] = <<>>]
    /\ hseen' = [hseen EXCEPT ![h] = NoReadings]
    /\ UNCHANGED <<mainpc, config, store, port_open, listening, w, last, ninserts, returned>>

\* scrape, line 59, and the end of the closure: the String is returned, the
\* guard is dropped, and the String becomes the response
HandlerReturn(h) ==
    /\ hpc[h] = "scrape"
    /\ hrem[h] = {}
    /\ lock' = "free"
    /\ hpc' = [hpc EXCEPT ![h] = "idle"]
    /\ hdoc' = [hdoc EXCEPT ![h] = <<>>]
    /\ hseen' = [hseen EXCEPT ![h] = NoReadings]
    /\ returned' = Some({hdoc[h][i] : i \in 3..Len(hdoc[h])})
    /\ UNCHANGED <<mainpc, config, store, poisoned, port_open, listening,
                   w, hrem, last, ninserts>>

Next ==
    \/ LoadConfigError
    \/ LoadConfigEmpty
    \/ LoadConfig
    \/ ReadFields
    \/ BuildStore
    \/ OpenPort
    \/ OpenPortError
    \/ SpawnWorker
    \/ Serve
    \/ ServeBindPanic
    \/ WorkerLoop
    \/ WorkerReadFrame
    \/ WorkerReadError
    \/ WorkerDecode
    \/ WorkerDecodeError
    \/ WorkerIgnore
    \/ WorkerPrepare
    \/ WorkerLock
    \/ WorkerLockPoisoned
    \/ WorkerEntry
    \/ WorkerReplace
    \/ \E h \in Handlers : HandlerPoll(h)
    \/ \E h \in Handlers : HandlerLock(h)
    \/ \E h \in Handlers : HandlerLockPoisoned(h)
    \/ \E h \in Handlers : HandlerScrapeNext(h)
    \/ \E h \in Handlers : HandlerScrapePanic(h)
    \/ \E h \in Handlers : HandlerReturn(h)

Spec == Init /\ [][Next]_vars

(***************************************************************************)
(* Fair scheduling.  The executor runs the closure of a request to its     *)
(* end, the mutex is granted to whoever keeps asking for it, and the       *)
(* worker thread runs every step that is its own.  Nothing is assumed of   *)
(* the port: read_frame may block forever, or fail forever.                *)
(***************************************************************************)
HandlerFairness(h) ==
    /\ SF_vars(HandlerLock(h))
    /\ WF_vars(HandlerLockPoisoned(h))
    /\ WF_vars(HandlerScrapeNext(h))
    /\ WF_vars(HandlerScrapePanic(h))
    /\ WF_vars(HandlerReturn(h))

WorkerFairness ==
    /\ WF_vars(WorkerLoop)
    /\ WF_vars(WorkerReadError)
    /\ WF_vars(WorkerDecode)
    /\ WF_vars(WorkerDecodeError)
    /\ WF_vars(WorkerIgnore)
    /\ WF_vars(WorkerPrepare)
    /\ SF_vars(WorkerLock)
    /\ WF_vars(WorkerLockPoisoned)
    /\ WF_vars(WorkerEntry)
    /\ WF_vars(WorkerReplace)

FairSpec ==
    /\ Spec
    /\ \A h \in Handlers : HandlerFairness(h)
    /\ WorkerFairness

(***************************************************************************)
(* decode_temperature on every byte: the worker of a started process has   *)
(* just read a 4BS frame whose payload byte at offset 2 is any u8, and     *)
(* goes on to decode it and to compute the temperature (lines 104-113).    *)
(***************************************************************************)
InitDecode ==
    /\ mainpc = "serving"
    /\ config \in {c \in Configs : FieldsOk(c) /\ with_devices(as_hash(c.devices)[1]).ok}
    /\ store = Some(with_devices(as_hash(config.devices)[1]).v)
    /\ lock = "free"
    /\ poisoned = FALSE
    /\ port_open = TRUE
    /\ listening = TRUE
    /\ \E a \in Addresses, b \in U8 :
          w = [WorkerLocals("frame", "none") EXCEPT !.rx = Ok(Bs4Frame(a, b))]
    /\ hpc = [h \in Handlers |-> "idle"]
    /\ hrem = [h \in Handlers |-> {}]
    /\ hdoc = [h \in Handlers |-> <<>>]
    /\ hseen = [h \in Handlers |-> NoReadings]
    /\ last = NoReadings
    /\ ninserts = 0
    /\ returned = None

NextDecode ==
    \/ WorkerDecode
    \/ WorkerPrepare

SpecDecode == InitDecode /\ [][NextDecode]_vars

(***************************************************************************)
(* What the properties are stated with.                                    *)
(***************************************************************************)
\* the devices table of the configuration (empty when devices is no table)
Table == config.devices.hash

\* the text of an id of the model
IsAddressText(s) == \E a \in Addresses : AddressToString(a) = s

\* the name the configuration gives an address, as an Option
ConfiguredName(a) ==
    IF \E i \in DOMAIN Table : Table[i][1] = YString(AddressToString(a))
    THEN Some((CHOOSE e \in {Table[i] : i \in DOMAIN Table} :
                  e[1] = YString(AddressToString(a)))[2].str)
    ELSE None

ConfiguredAddresses ==
    {a \in Addresses : \E i \in DOMAIN Table : Table[i][1] = YString(AddressToString(a))}

\* no insert call is being executed
NoInsertRunning == w.pc \notin {"entry", "replace"}

\* round(byte * 80 / 255): the integer nearest to the quotient
NearestInteger(byte) ==
    CHOOSE r \in 0..80 : 510 * r - 255 <= 160 * byte /\ 160 * byte < 510 * r + 255

\* the text of a temperature given in half degrees
CelsiusText(t) == IF 2 * (t \div 2) = t THEN ToString(t \div 2)
                  ELSE ToString((t - 1) \div 2) \o ".5"

\* the value and the timestamp in epoch milliseconds that end a line
ValueAndMillis(reading) ==
    CelsiusText(reading[1]) \o " " \o ToString(reading[2] \div 1000000) \o "\n"

\* a line with the address label only
AddressOnlyLine(a, reading) ==
    "enocean_temperature_celsius{address=\"" \o AddressToString(a) \o "\"} "
        \o ValueAndMillis(reading)

\* a line with the address label and the name label
NamedLine(a, n, reading) ==
    "enocean_temperature_celsius{address=\"" \o AddressToString(a)
        \o "\", name=\"" \o n \o "\"} " \o ValueAndMillis(reading)

\* the exposition line of an address with the reading (temperature, timestamp)
ExpositionLine(a, reading) ==
    IF ConfiguredName(a) = None THEN AddressOnlyLine(a, reading)
    ELSE NamedLine(a, ConfiguredName(a)[1], reading)

\* the line starts with the metric name and the address label of a
LineOfAddress(line, a) ==
    LET p == "enocean_temperature_celsius{address=\"" \o AddressToString(a) \o "\""
    IN  Len(line) >= Len(p) /\ SubSeq(line, 1, Len(p)) = p

\* the places of a document, after the header, that hold a line of a
LinesOfAddress(doc, a) == {i \in 3..Len(doc) : LineOfAddress(doc[i], a)}

\* the lines of a document after its two header lines
Samples(doc) == {doc[i] : i \in 3..Len(doc)}

(***************************************************************************)
(* C1.  The Reading stored for an address is the (temperature, timestamp)  *)
(* of the last insert call made for it, whatever the timestamps are, and a *)
(* document returned by scrape shows for an address only the reading of    *)
(* the last insert call made before the scrape, never an earlier one.      *)
(***************************************************************************)
C1_LastInsertStored ==
    /\ (store # None /\ NoInsertRunning) =>
          \A a \in DOMAIN last :
             a \in DOMAIN store[1] /\ store[1][a].point = Some(last[a])
    /\ \A h \in Handlers :
          hpc[h] = "scrape" =>
             Samples(hdoc[h]) \subseteq
                {ExpositionLine(a, last[a]) : a \in DOMAIN last}

\* an insert has replaced a reading by one with an older timestamp, and a
\* scrape has the document with the line of the older one ready to return
C1_Witness ==
    \E h \in Handlers :
       /\ w.pc = "loop"
       /\ w.done = "inserted"
       /\ w.old # None
       /\ w.old[1][2] > w.timestamp
       /\ store[1][w.address].point = Some(<<w.temperature, w.timestamp>>)
       /\ hpc[h] = "scrape"
       /\ hrem[h] = {}
       /\ ExpositionLine(w.address, <<w.temperature, w.timestamp>>) \in Samples(hdoc[h])

(***************************************************************************)
(* C2.  insert and scrape exclude each other on the whole map, and what a  *)
(* scrape has read so far, up to the document it returns, is that of the   *)
(* store as it was after all insert calls that took the lock before the    *)
(* scrape and none after: the configured devices with the last readings of *)
(* those calls.                                                            *)
(***************************************************************************)
C2_ScrapeSeesPrefix ==
    /\ \A h \in Handlers : ~(hpc[h] = "scrape" /\ ~NoInsertRunning)
    /\ \A g, h \in Handlers : (hpc[g] = "scrape" /\ hpc[h] = "scrape") => g = h
    /\ lock = "worker" <=> ~NoInsertRunning
    /\ \A h \in Handlers : lock = h <=> hpc[h] = "scrape"
    /\ \A h \in Handlers :
          hpc[h] = "scrape" =>
             /\ hrem[h] \subseteq ConfiguredAddresses \cup DOMAIN hseen[h]
             /\ Samples(hdoc[h]) =
                   {ExpositionLine(a, hseen[h][a]) : a \in DOMAIN hseen[h] \ hrem[h]}
             /\ Len(hdoc[h]) = 2 + Cardinality(DOMAIN hseen[h] \ hrem[h])

\* a scrape that has read the reading of one device is under way, another
\* device is still to be read, and the worker waits for the lock with a
\* reading of its own
C2_Witness ==
    \E h \in Handlers :
       /\ hpc[h] = "scrape"
       /\ Len(hdoc[h]) = 3
       /\ hrem[h] # {}
       /\ w.pc = "lock"

(***************************************************************************)
(* C3.  After with_devices has succeeded and before any insert, the store  *)
(* holds one record for each entry of the devices table, under the address *)
(* of the entry's key, with the entry's name and no Reading, and no other  *)
(* record.                                                                 *)
(***************************************************************************)
C3_InitialStore ==
    (store # None /\ ninserts = 0) =>
       /\ \A i \in DOMAIN Table :
             \E a \in DOMAIN store[1] :
                /\ AddressToString(a) = Table[i][1].str
                /\ store[1][a] = [name |-> <<Table[i][2].str>>, point |-> <<>>]
       /\ Cardinality(DOMAIN store[1]) = Len(Table)

\* a store built from a table of two devices, nothing inserted yet
C3_Witness ==
    /\ store # None
    /\ ninserts = 0
    /\ Len(Table) = 2
    /\ mainpc = "serving"

C5_LineContent ==
    \A h \in Handlers :
       /\ hpc[h] = "scrape" =>
             \A i \in 3..Len(hdoc[h]) :
                \E a \in DOMAIN store[1] \ hrem[h] :
                   /\ store[1][a].point # None
                   /\ hdoc[h][i] =
                         IF store[1][a].name = None
                         THEN AddressOnlyLine(a, store[1][a].point[1])
                         ELSE NamedLine(a, store[1][a].name[1], store[1][a].point[1])

\* a scrape has written the line of a named device and the line of a device
\* without a name
C5_Witness ==
    \E h \in Handlers :
       /\ hpc[h] = "scrape"
       /\ hrem[h] = {}
       /\ \E a, b \in DOMAIN store[1] :
             /\ store[1][a].name # None
             /\ store[1][b].name = None
             /\ store[1][a].point # None
             /\ store[1][b].point # None
             /\ NamedLine(a, store[1][a].name[1], store[1][a].point[1]) \in Samples(hdoc[h])
             /\ AddressOnlyLine(b, store[1][b].point[1]) \in Samples(hdoc[h])

SensorFrameRead(r) ==
    r.ok /\ r.v.crc_ok /\ r.v.packet_type = "RadioErp1" /\ r.v.rorg = "Bs4"

\* the worker takes a step
WorkerSteps == w' # w

\* the step leaves the store, the lock and the history of inserts as they are
StoreUntouched ==
    /\ store' = store
    /\ last' = last
    /\ ninserts' = ninserts
    /\ lock' = lock
    /\ poisoned' = poisoned

C8_OtherPacketsIgnored ==
    [][/\ (/\ w.pc = "packet"
           /\ w.pkt.ok
           /\ ~(w.pkt.v.variant = "RadioErp1" /\ w.pkt.v.choice = "Bs4")
           /\ WorkerSteps) =>
             /\ w'.pc = "loop"
             /\ w'.done = "ignored"
             /\ StoreUntouched
       /\ (w.pc = "loop" /\ WorkerSteps) => w'.pc = "read"
       /\ (w.pc = "packet" /\ w'.pc = "lock") =>
             w.rx.v.packet_type = "RadioErp1" /\ w.rx.v.rorg = "Bs4"
      ]_vars

\* after an insert, the iteration of a radio telegram of another kind has
\* ended without one
C8_Witness ==
    /\ w.pc = "loop"
    /\ w.done = "ignored"
    /\ ninserts = 1
    /\ store # None
    /\ \E a \in DOMAIN store[1] : store[1][a].point # None

(***************************************************************************)
(* C9.  A frame read failure or a decode failure ends the iteration only:  *)
(* the store is unchanged, the worker does not stop, and it can at once go *)
(* on to the next iteration and read again; nothing counts the failures.   *)
(***************************************************************************)
C9_FailureEndsIterationOnly ==
    /\ [][/\ (w.pc = "frame" /\ ~w.rx.ok /\ WorkerSteps) =>
                w'.pc = "loop" /\ w'.done = "read_error" /\ StoreUntouched
          /\ (w.pc = "packet" /\ ~w.pkt.ok /\ WorkerSteps) =>
                w'.pc = "loop" /\ w'.done = "decode_error" /\ StoreUntouched
          /\ (w.pc = "loop" /\ WorkerSteps) => w' = WorkerLocals("read", "none")
         ]_vars
    /\ [](w.pc = "loop" => ENABLED WorkerLoop)
    /\ [](w.pc = "read" =>
             ENABLED (WorkerReadFrame /\ ~w'.rx.ok) /\ ENABLED (WorkerReadFrame /\ w'.rx = Ok(GarbledFrame)))
    /\ [](w.pc \notin {"stopped"})

\* after an insert, an iteration has ended with a decode failure
C9_Witness ==
    /\ w.pc = "loop"
    /\ w.done = "decode_error"
    /\ ninserts >= 1
    /\ store # None
    /\ \E a \in DOMAIN store[1] : store[1][a].point # None

\* the entry of the devices table is malformed: its key is not the text of
\* an address, or its value is not a string
Malformed(entry) ==
    \/ entry[2].tag # "String"
    \/ entry[1].tag # "String"
    \/ ~IsAddressText(entry[1].str)

(***************************************************************************)
(* C10.  If the devices table has a key that is not a valid address or a   *)
(* value that is not a string, with_devices returns an error and no store, *)
(* and main ends before the serial port is opened, before the worker is    *)
(* started and before the HTTP listener is bound.                          *)
(***************************************************************************)
C10_MalformedDevicesFatal ==
    (/\ \E i \in DOMAIN Table : Malformed(Table[i])
     /\ mainpc \notin {"load_config", "read_fields", "with_devices"}) =>
       /\ mainpc = "exited"
       /\ store = None
       /\ ~port_open
       /\ w.pc = "not_started"
       /\ ~listening
       /\ \A h \in Handlers : hpc[h] = "idle"

\* main has ended at with_devices for a table whose first entry is well
\* formed and whose second is not
C10_Witness ==
    /\ mainpc = "exited"
    /\ FieldsOk(config)
    /\ Len(Table) = 2
    /\ ~Malformed(Table[1])
    /\ Malformed(Table[2])


\* main has ended before the listener was bound: by an error returned
\* (lines 67-77) or by the panic of line 68, which comes before the store
StartupFailed ==
    \/ mainpc = "exited"
    \/ mainpc = "panicked" /\ store = None

(***************************************************************************)
(* C11.  Startup runs in the order configuration, store, serial port,      *)
(* worker, listener: each step has happened only if the ones before it     *)
(* have; and when main has ended on a failure before binding, the worker   *)
(* was never started, the listener was never bound, no request is in a     *)
(* handler, and main takes no later step.                                  *)
(***************************************************************************)
C11_StartupOrder ==
    /\ [](/\ store # None => (config # NoConfig /\ FieldsOk(config))
          /\ port_open => store # None
          /\ w.pc # "not_started" => port_open
          /\ listening => w.pc # "not_started"
          /\ (\E h \in Handlers : hpc[h] # "idle") => listening
          /\ StartupFailed =>
                /\ w.pc = "not_started"
                /\ ~listening
                /\ \A h \in Handlers : hpc[h] = "idle"
                /\ lock = "free")
    /\ [][StartupFailed => UNCHANGED vars]_vars

\* main has ended because the port could not be opened, after the store of
\* a valid configuration was built
C11_Witness ==
    /\ mainpc = "exited"
    /\ store # None
    /\ ~port_open
    /\ FieldsOk(config)


\* the closure of the request of h ends with the step, and with a document
\* returned
ClosureEnds(h) == InClosure(h) /\ hpc'[h] = "idle"

DocumentReturned(h) == hpc[h] = "scrape" /\ hrem[h] = {} /\ Len(hdoc[h]) >= 2

(***************************************************************************)
(* C12.  Every GET /metrics request that reaches the closure is answered   *)
(* with an exposition document, whatever the store holds: the closure never*)
(* ends in another way than by returning the document of scrape.           *)
(***************************************************************************)
C12_EveryRequestAnswered ==
    [][\A h \in Handlers : ClosureEnds(h) => DocumentReturned(h)]_vars

(***************************************************************************)
(* C13.  Once the mutex is poisoned (a holder panicked with the guard), no *)
(* insert and no scrape runs on the store again: nobody holds the lock,    *)
(* the store and the history of inserts stay as they are, no document is   *)
(* built, the flag stays set, every request that asks for the lock ends    *)
(* without a document, and the worker that asks for it ends for good.      *)
(***************************************************************************)
C13_PoisonIsFatal ==
    /\ [](poisoned =>
             /\ lock = "free"
             /\ NoInsertRunning
             /\ \A h \in Handlers : hpc[h] # "scrape" /\ hdoc[h] = <<>>)
    /\ [][poisoned =>
             /\ poisoned'
             /\ store' = store
             /\ last' = last
             /\ ninserts' = ninserts
             /\ (w.pc = "lock" /\ WorkerSteps) => w'.pc = "panicked"
             /\ \A h \in Handlers :
                   (hpc[h] = "lock" /\ hpc'[h] # "lock") => hpc'[h] = "idle"
         ]_vars
    /\ [][w.pc = "panicked" => w' = w]_vars

\* the mutex is poisoned, the worker has ended at its lock().unwrap(), and a
\* request is at the lock().unwrap() of the closure
C13_Witness ==
    /\ poisoned
    /\ w.pc = "panicked"
    /\ \E h \in Handlers : hpc[h] = "lock"
    /\ \E a \in DOMAIN store[1] :
          store[1][a].point # None /\ store[1][a].point[1][2] < 0

(***************************************************************************)
(* C14.  Once started, the worker is always reading a frame, processing    *)
(* one or inserting: it never reaches a position where it has ended.       *)
(***************************************************************************)
C14_WorkerNeverStops ==
    w.pc \in {"not_started", "read", "frame", "packet", "lock", "entry", "replace", "loop"}


(***************************************************************************)
(* C15.  For every byte b of 0..255, decode_temperature(b) is              *)
(* 40 - round(b * 80 / 255) / 2: twice the result is the integer           *)
(* 80 - round(b * 80 / 255), which lies in 0..80 (the result is a multiple *)
(* of 0.5 within [0, 40]); the result is non-increasing in b; and it maps  *)
(* 0 to 40.0, 255 to 0.0 and 128 to 20.0.  Temperatures are in half        *)
(* degrees.                                                                *)
(***************************************************************************)
C15_DecodeTemperature ==
    w.pc = "lock" =>
       LET b == w.rx.v.data[3]
           t == w.temperature
       IN  /\ b \in U8
           /\ t = 80 - NearestInteger(b)
           /\ t \in 0..80
           /\ \A c \in 0..b : decode_temperature(c) >= t
           /\ b = 0 => t = 80
           /\ b = 255 => t = 0
           /\ b = 128 => t = 40

\* the worker has computed 20.0 degrees from the byte 128
C15_Witness ==
    /\ w.pc = "lock"
    /\ w.rx.v.data[3] = 128
    /\ w.temperature = 40


(***************************************************************************)
(* C16.  insert(address, ..) changes only the Reading of the record of     *)
(* that address: a step that changes the store is a step of insert, it     *)
(* keeps every record there was, adds at most the record of the address    *)
(* (with no name), leaves every name and every other record as it was; so  *)
(* the name of a record is always the one the configuration gives the      *)
(* address, or none.                                                       *)
(***************************************************************************)
C16_InsertFrame ==
    /\ [][(store # None /\ store' # store) =>
             /\ w.pc \in {"entry", "replace"}
             /\ store' # None
             /\ DOMAIN store'[1] \subseteq DOMAIN store[1] \cup {w.address}
             /\ \A a \in DOMAIN store[1] :
                   /\ a \in DOMAIN store'[1]
                   /\ store'[1][a].name = store[1][a].name
                   /\ a # w.address => store'[1][a] = store[1][a]
             /\ \A a \in DOMAIN store'[1] \ DOMAIN store[1] :
                   store'[1][a].name = None
         ]_vars
    /\ [](store # None =>
             \A a \in DOMAIN store[1] : store[1][a].name = ConfiguredName(a))

\* an insert has replaced the reading of a named device, in a store that
\* holds the record of another named device
C16_Witness ==
    /\ w.pc = "loop"
    /\ w.done = "inserted"
    /\ w.old # None
    /\ store[1][w.address].name # None
    /\ store[1][w.address].point = Some(<<w.temperature, w.timestamp>>)
    /\ w.old # store[1][w.address].point
    /\ \E a \in DOMAIN store[1] \ {w.address} : store[1][a].name # None


\* the mutex is held exactly while insert or scrape runs, and a closure that
\* leaves scrape leaves the mutex free
LockOnlyInCriticalSections ==
    /\ [](lock = "worker" <=> w.pc \in {"entry", "replace"})
    /\ [](\A h \in Handlers : lock = h <=> hpc[h] = "scrape")
    /\ [](lock \in {"free", "worker"} \cup Handlers)
    /\ [][\A h \in Handlers :
             (hpc[h] = "scrape" /\ hpc'[h] # "scrape") => lock' = "free"]_vars

\* every request that has reached the closure leaves it, with or without a
\* document
EveryClosureEnds == \A h \in Handlers : InClosure(h) ~> ~InClosure(h)

(***************************************************************************)
(* C17.  The lock is held only while insert or scrape executes (not while  *)
(* the worker reads, decodes or takes the time, and not after the closure  *)
(* of a request has returned), so under fair scheduling every scrape       *)
(* request that has reached the closure eventually completes: it gets to   *)
(* the document scrape returns, whatever the port read does.               *)
(***************************************************************************)
C17_ScrapeCompletes ==
    /\ LockOnlyInCriticalSections
    /\ \A h \in Handlers : InClosure(h) ~> DocumentReturned(h)


Printed == {w.printed[i] : i \in DOMAIN w.printed}

(***************************************************************************)
(* C19.  Every transient ingestion error is logged before the iteration is *)
(* abandoned: an iteration that has ended on a frame read failure has      *)
(* printed a message, and one that has ended on a decode failure has       *)
(* printed the decode error.                                               *)
(***************************************************************************)
C19_EveryFailureLogged ==
    /\ (w.pc = "loop" /\ w.done = "read_error") => Printed # {}
    /\ (w.pc = "loop" /\ w.done = "decode_error") => "Cannot decode" \in Printed

\* the decode failure is logged: the part of C19 the code does
DecodeFailureLogged ==
    (w.pc = "loop" /\ w.done = "decode_error") => w.printed = <<"Frame", "Cannot decode">>


\* the reading the worker makes of the frame of its iteration
ReadingOfFrame == <<80 - NearestInteger(w.rx.v.data[3]), w.timestamp>>

(***************************************************************************)
(* C20.  Inserts reach the store in the order their frames were read: the  *)
(* worker reads a frame only when the insert of the frame before is done,  *)
(* no other insert takes the lock between the read of a frame and its own  *)
(* insert, and when the iteration of a sensor frame has ended the Reading  *)
(* stored for its sender is that of this frame, whatever was stored for    *)
(* the sender before and whatever scrapes ran meanwhile.                   *)
(***************************************************************************)
C20_InsertsInFrameOrder ==
    /\ [](w.pc \in {"read", "frame", "packet", "lock"} =>
             /\ lock # "worker"
             /\ ninserts = w.base \/ w.pc = "read"
             /\ store # None
             /\ \A a \in DOMAIN last : store[1][a].point = Some(last[a]))
    /\ []((w.pc = "loop" /\ w.done = "inserted") =>
             /\ SensorFrameRead(w.rx)
             /\ w.address = w.rx.v.sender
             /\ store[1][w.address].point = Some(ReadingOfFrame)
             /\ last[w.address] = ReadingOfFrame
             /\ ninserts = w.base + 1)
    /\ [][(w.pc = "replace" /\ w'.pc = "loop") =>
             w'.old = IF w.address \in DOMAIN store[1]
                      THEN store[1][w.address].point ELSE None
         ]_vars

\* two sensor frames of one sender with different bytes have been read and
\* inserted, the store holds the reading of the second, and a scrape runs
C20_Witness ==
    /\ w.pc = "loop"
    /\ w.done = "inserted"
    /\ ninserts = 2
    /\ w.old # None
    /\ w.old[1][1] # w.temperature
    /\ store[1][w.address].point = Some(ReadingOfFrame)
    /\ \E h \in Handlers : hpc[h] = "scrape" /\ w.address \notin hrem[h]

=============================================================================
